---- MODULE Spec2Model ----
(***************************************************************************)
(* VectorDBConnector (src/src/mlops/vectordb/connector.py): a facade over  *)
(* a local SQLite table of float32 vectors, a Pinecone client, a Weaviate  *)
(* client, or a simulated backend.                                         *)
(*                                                                         *)
(* The model keeps the SQLite file (the committed table), the uncommitted  *)
(* image of the connection that holds the write lock, every connection's   *)
(* transaction and lock state, the calls forwarded to a remote client and  *)
(* the outcome of the last call.  upsert and query are one action each;    *)
(* budget is the number of calls a run may still make.                     *)
(*                                                                         *)
(* Scores are float32 quotients in the code.  The model keeps a finite     *)
(* score as the exact rational sign(dot) * dot^2 / (|q|^2 * |d|^2), which  *)
(* orders exactly as the cosine does, and the quotient 0/0 as NaN.         *)
(***************************************************************************)
EXTENDS Integers, Sequences, FiniteSets, TLC

VARIABLES conns, db, dirty, sess, remote, ret, budget

vars == <<conns, db, dirty, sess, remote, ret, budget>>

---------------------------------------------------------------------------
(* Bounds of the model *)

\* longest batch handed to one upsert
MaxBatch == 2
\* largest top_k handed to query
MaxTopK == 3
\* top_k ranges down to -MaxNegK
MaxNegK == 1
\* number of upsert/query calls in one run of one connector
MaxCalls == 3
\* number of upsert/query calls in one run of two connectors on one file
MaxSharedCalls == 2

---------------------------------------------------------------------------
(* Inputs *)

Collections == {"c1", "c2"}

\* "sqlite" stands for any identifier other than the three the code names
Providers == {"local", "pinecone", "weaviate", "sqlite"}

Meta(k, v) == {<<k, v>>}

List(s) == [kind |-> "list", elems |-> s]

\* a dict handed to upsert: keys names the keys it has; values that are a
\* text instead of a list of numbers have kind "str"
Vec(i, v, m) ==
    [keys |-> {"id", "values", "metadata"}, id |-> i, values |-> v, metadata |-> m]

NoMeta(i, v) == [keys |-> {"id", "values"}, id |-> i, values |-> v, metadata |-> {}]

NoId(v) == [keys |-> {"values"}, id |-> "", values |-> v, metadata |-> {}]

VecInputs ==
    { Vec("a", List(<<1, 0>>), Meta("text", "hello")),
      NoMeta("a", List(<<0, 1>>)),
      NoMeta("b", List(<<0, 0>>)),
      Vec("b", List(<<1, 0, 0>>), Meta("text", "hello")),
      Vec("c", List(<<1, 0>>), Meta("text", "tooloo")),
      NoId(List(<<1, 0>>)),
      NoMeta("a", [kind |-> "str", elems |-> <<>>]) }

Batches == UNION { [1..n -> VecInputs] : n \in 0..MaxBatch }

QueryVectors == { <<1, 0>>, <<0, 0>> }

TopKs == (0 - MaxNegK)..MaxTopK

---------------------------------------------------------------------------
(* Encodings *)

\* np.array(values, dtype=np.float32).tobytes(): 4 little-endian bytes each
F32Bytes(x) ==
    CASE x = 0 -> <<0, 0, 0, 0>>
      [] x = 1 -> <<0, 0, 128, 63>>
      [] x = 2 -> <<0, 0, 0, 64>>

RECURSIVE ToBytes(_)
ToBytes(s) == IF s = <<>> THEN <<>> ELSE F32Bytes(Head(s)) \o ToBytes(Tail(s))

\* np.frombuffer(blob, dtype=np.float32)
F32Value(b) ==
    CASE b = <<0, 0, 0, 0>>    -> 0
      [] b = <<0, 0, 128, 63>> -> 1
      [] b = <<0, 0, 0, 64>>   -> 2

FromBuffer(blob) ==
    [i \in 1..(Len(blob) \div 4) |-> F32Value(SubSeq(blob, 4 * i - 3, 4 * i))]

\* json.dumps of a dict of at most one string pair, as its tokens
JsonDumps(m) ==
    IF m = {} THEN <<"{", "}">>
    ELSE LET p == CHOOSE x \in m : TRUE IN <<"{", p[1], ":", p[2], "}">>

\* json.loads
JsonLoads(t) == IF Len(t) = 2 THEN {} ELSE {<<t[2], t[4]>>}

---------------------------------------------------------------------------
(* Construction *)

Simulated == {"pinecone_simulated", "weaviate_simulated"}

\* _initialize_client without the checks for a missing key or URL
InitializeClientUnchecked(provider, config, env_key, lib) ==
    IF provider = "pinecone" THEN IF lib THEN "Pinecone" ELSE "pinecone_simulated"
    ELSE IF provider = "weaviate" THEN IF lib THEN "weaviate.Client" ELSE "weaviate_simulated"
    ELSE "conn"

\* _initialize_client: lib says whether the provider's library imports,
\* config which keys the config dict has, env_key whether PINECONE_API_KEY
\* is set.  "conn" is the sqlite3 connection.
InitializeClient(provider, config, env_key, lib) ==
    IF provider = "pinecone"
    THEN IF ~lib THEN "pinecone_simulated"
         ELSE IF ~(("api_key" \in config) \/ env_key) THEN "pinecone_simulated"
         ELSE "Pinecone"
    ELSE IF provider = "weaviate"
    THEN IF ~lib THEN "weaviate_simulated"
         ELSE IF ~("url" \in config) THEN "weaviate_simulated"
         ELSE "weaviate.Client"
    ELSE "conn"

\* __init__; env_key and lib are kept beside the fields to say how the
\* connector was built
Connector(provider, config, env_key, lib) ==
    [provider |-> provider,
     config   |-> config,
     client   |-> InitializeClient(provider, config, env_key, lib),
     env_key  |-> env_key,
     lib      |-> lib]

Configs == SUBSET {"api_key", "url"}

\* how a connector is built: every configuration and environment for the
\* two remote providers, which read them; an empty configuration for the
\* others, which read only db_path
Setups ==
    {su \in [provider : Providers, config : Configs, env_key : BOOLEAN, lib : BOOLEAN] :
        su.provider \in {"pinecone", "weaviate"}
            \/ (su.config = {} /\ ~su.env_key /\ ~su.lib)}

NoCall ==
    [op |-> "none", conn |-> "", collection |-> "", vectors |-> <<>>, vector |-> <<>>,
     top_k |-> 0, scan |-> <<>>, route |-> "", exc |-> "none", done |-> 0,
     value |-> <<>>]

Idle == [in_transaction |-> FALSE, lock |-> "none"]

InitStore ==
    /\ db = {}
    /\ dirty = {}
    /\ remote = {}
    /\ ret = NoCall

\* one connector, built from any provider, configuration and environment
Init ==
    /\ InitStore
    /\ budget = MaxCalls
    /\ \E su \in Setups :
          conns = [k \in {"k1"} |-> Connector(su.provider, su.config, su.env_key, su.lib)]
    /\ sess = [k \in {"k1"} |-> Idle]

\* two local connectors opened on the same store file
InitShared ==
    /\ InitStore
    /\ budget = MaxSharedCalls
    /\ conns = [k \in {"k1", "k2"} |-> Connector("local", {}, FALSE, FALSE)]
    /\ sess = [k \in {"k1", "k2"} |-> Idle]

---------------------------------------------------------------------------
(* The SQLite table and its locks *)

WriteLocks == {"reserved", "pending"}

OthersHold(c, locks) == \E k \in DOMAIN sess \ {c} : sess[k].lock \in locks

\* the table as connection c reads it: its own uncommitted image while it
\* holds the write lock, the committed file otherwise
Visible(s, uncommitted, committed, c) ==
    IF s[c].lock \in WriteLocks THEN uncommitted ELSE committed

View(c) == Visible(sess, dirty, db, c)

\* a SELECT that leaves out the WHERE clause
SelectAll(table, collection_name) == table

\* SELECT ... FROM vectors WHERE collection=?
Select(table, collection_name) == {r \in table : r.collection = collection_name}

Row(collection_name, vec) ==
    [collection |-> collection_name,
     id         |-> vec.id,
     vector     |-> ToBytes(vec.values.elems),
     metadata   |-> JsonDumps(IF "metadata" \in vec.keys THEN vec.metadata ELSE {})]

\* a plain INSERT into a table without the primary key
InsertOnly(table, row) == table \cup {row}

\* INSERT OR REPLACE under PRIMARY KEY (collection, id)
InsertOrReplace(table, row) ==
    {r \in table : ~(r.collection = row.collection /\ r.id = row.id)} \cup {row}

\* the for loop of upsert from record i on; st is the connection's table
\* image, transaction flag and lock.  The first INSERT begins a transaction
\* and takes the write lock, which fails while another connection holds it.
RECURSIVE UpsertLoop(_, _, _, _, _)
UpsertLoop(c, collection_name, vectors, i, st) ==
    IF i > Len(vectors) THEN [st |-> st, exc |-> "none", done |-> i - 1]
    ELSE LET vec == vectors[i] IN
         IF vec.values.kind # "list"
         THEN [st |-> st, exc |-> "ValueError", done |-> i - 1]
         ELSE IF ~("id" \in vec.keys)
         THEN [st |-> st, exc |-> "KeyError", done |-> i - 1]
         ELSE IF ~(st.lock \in WriteLocks) /\ OthersHold(c, WriteLocks)
         THEN [st   |-> [st EXCEPT !.in_transaction = TRUE],
               exc  |-> "OperationalError",
               done |-> i - 1]
         ELSE UpsertLoop(c, collection_name, vectors, i + 1,
                  [table          |-> InsertOrReplace(st.table, Row(collection_name, vec)),
                   in_transaction |-> TRUE,
                   lock           |-> IF st.lock = "pending" THEN "pending" ELSE "reserved"])

\* an upsert that returns without self.client.commit()
CommitMissing(c, r) == [st |-> r.st, exc |-> r.exc, done |-> r.done, committed |-> FALSE]

\* self.client.commit(): a write transaction needs every other connection's
\* read lock gone, and keeps a pending lock when it fails
Commit(c, r) ==
    IF r.exc # "none" \/ ~r.st.in_transaction
    THEN [st |-> r.st, exc |-> r.exc, done |-> r.done, committed |-> FALSE]
    ELSE IF r.st.lock \in WriteLocks /\ OthersHold(c, {"shared"})
    THEN [st        |-> [r.st EXCEPT !.lock = "pending"],
          exc       |-> "OperationalError",
          done      |-> r.done,
          committed |-> FALSE]
    ELSE [st        |-> [r.st EXCEPT !.in_transaction = FALSE, !.lock = "none"],
          exc       |-> "none",
          done      |-> r.done,
          committed |-> r.st.lock \in WriteLocks]

\* upsert, provider "local": the loop, then one commit
UpsertLocal(c, collection_name, vectors) ==
    Commit(c, UpsertLoop(c, collection_name, vectors, 1,
                         [table          |-> View(c),
                          in_transaction |-> sess[c].in_transaction,
                          lock           |-> sess[c].lock]))

---------------------------------------------------------------------------
(* Scoring and ranking *)

RECURSIVE Dot(_, _)
Dot(x, y) == IF x = <<>> THEN 0 ELSE Head(x) * Head(y) + Dot(Tail(x), Tail(y))

Abs(n) == IF n < 0 THEN 0 - n ELSE n

NaN == [nan |-> TRUE, num |-> 0, den |-> 1]

\* np.dot(q, d) / (np.linalg.norm(q) * np.linalg.norm(d)) for equal lengths:
\* 0/0 is NaN (numpy warns and goes on), every other quotient is finite
Cosine(query_vec, db_vec) ==
    LET dot == Dot(query_vec, db_vec)
        den == Dot(query_vec, query_vec) * Dot(db_vec, db_vec)
    IN  IF den = 0 THEN NaN
        ELSE [nan |-> FALSE, num |-> dot * Abs(dot), den |-> den]

\* x < y on floats: false whenever a NaN is compared
ScoreLT(x, y) == ~x.nan /\ ~y.nan /\ x.num * y.den < y.num * x.den

ScoreEQ(x, y) == ~x.nan /\ ~y.nan /\ x.num * y.den = y.num * x.den

Reverse(s) == [i \in 1..Len(s) |-> s[Len(s) + 1 - i]]

\* list.sort's count_run: the length of the run that starts the list, and
\* whether it is strictly descending
RECURSIVE RunLength(_, _, _)
RunLength(s, n, descending) ==
    IF n = Len(s) THEN n
    ELSE IF ScoreLT(s[n + 1].score, s[n].score) = descending
         THEN RunLength(s, n + 1, descending)
         ELSE n

\* list.sort's binarysort: where the pivot goes among the sorted s[l+1..r]
RECURSIVE InsertionPoint(_, _, _, _)
InsertionPoint(s, pivot, l, r) ==
    IF l >= r THEN l
    ELSE LET p == l + ((r - l) \div 2) IN
         IF ScoreLT(pivot.score, s[p + 1].score)
         THEN InsertionPoint(s, pivot, l, p)
         ELSE InsertionPoint(s, pivot, p + 1, r)

RECURSIVE BinarySort(_, _)
BinarySort(s, start) ==
    IF start >= Len(s) THEN s
    ELSE LET pivot == s[start + 1]
             l     == InsertionPoint(s, pivot, 0, start)
         IN  BinarySort(SubSeq(s, 1, l) \o <<pivot>> \o SubSeq(s, l + 1, start)
                            \o SubSeq(s, start + 2, Len(s)),
                        start + 1)

\* list.sort without reverse, for the short lists (under 64) it sorts as
\* one run: count_run, then binarysort of the rest
ListSort(s) ==
    IF Len(s) < 2 THEN s
    ELSE LET descending == ScoreLT(s[2].score, s[1].score)
             n          == RunLength(s, 2, descending)
             run        == IF descending
                           THEN Reverse(SubSeq(s, 1, n)) \o SubSeq(s, n + 1, Len(s))
                           ELSE s
         IN  BinarySort(run, n)

\* results.sort(key=score, reverse=True): reverse, sort, reverse
SortByScoreDescending(results) == Reverse(ListSort(Reverse(results)))

\* results[:top_k]; a negative top_k counts from the end
Slice(results, top_k) ==
    IF top_k >= 0
    THEN SubSeq(results, 1, IF top_k < Len(results) THEN top_k ELSE Len(results))
    ELSE SubSeq(results, 1, Len(results) + top_k)

Result(row, score) ==
    [id |-> row.id, score |-> score, metadata |-> JsonLoads(row.metadata)]

\* query, provider "local", on the rows the SELECT returned, in its order:
\* np.dot raises on the first row whose length differs from the query's
QueryRows(rows, vector, top_k) ==
    IF \E i \in 1..Len(rows) : Len(FromBuffer(rows[i].vector)) # Len(vector)
    THEN [exc |-> "ValueError", value |-> <<>>]
    ELSE [exc   |-> "none",
          value |-> Slice(SortByScoreDescending(
                              [i \in 1..Len(rows) |->
                                  Result(rows[i], Cosine(vector, FromBuffer(rows[i].vector)))]),
                          top_k)]

\* the orders in which a SELECT without ORDER BY may return a set of rows
Scans(rows) ==
    {s \in [1..Cardinality(rows) -> rows] : \A i, j \in DOMAIN s : i # j => s[i] # s[j]}

---------------------------------------------------------------------------
(* The two calls of the facade *)

Placeholder ==
    [id       |-> "simulated_match",
     score    |-> [nan |-> FALSE, num |-> 95, den |-> 100],
     metadata |-> Meta("text", "Simulated result")]

\* what index.query of a live Pinecone client hands back
RemoteMatches == <<[id |-> "<index.query>", score |-> NaN, metadata |-> {}]>>

\* the branch of upsert and of query that a connector takes
Route(k) ==
    IF k.provider = "local" THEN "local"
    ELSE IF k.provider = "pinecone" /\ k.client # "pinecone_simulated" THEN "pinecone"
    ELSE "simulated"

Call(op, c, collection_name) ==
    [NoCall EXCEPT !.op = op, !.conn = c, !.collection = collection_name,
                   !.route = Route(conns[c])]

\* VectorDBConnector.upsert
Upsert(c, collection_name, vectors) ==
    /\ budget > 0
    /\ budget' = budget - 1
    /\ UNCHANGED conns
    /\ LET call == [Call("upsert", c, collection_name) EXCEPT !.vectors = vectors] IN
       IF call.route = "local"
       THEN LET r == UpsertLocal(c, collection_name, vectors) IN
            /\ sess' = [sess EXCEPT ![c] = [in_transaction |-> r.st.in_transaction,
                                            lock           |-> r.st.lock]]
            /\ db' = IF r.committed THEN r.st.table ELSE db
            /\ dirty' = IF r.committed THEN {}
                        ELSE IF r.st.lock \in WriteLocks THEN r.st.table
                        ELSE dirty
            /\ ret' = [call EXCEPT !.exc = r.exc, !.done = r.done,
                                   !.value = IF r.exc = "none" THEN <<TRUE>> ELSE <<>>]
            /\ UNCHANGED remote
       ELSE IF call.route = "pinecone"
       THEN /\ IF \E i \in 1..Len(vectors) : ~("id" \in vectors[i].keys)
               THEN /\ ret' = [call EXCEPT !.exc = "KeyError"]
                    /\ UNCHANGED remote
               ELSE /\ ret' = [call EXCEPT !.value = <<TRUE>>, !.done = Len(vectors)]
                    /\ remote' = remote \cup {[op |-> "upsert", index |-> collection_name]}
            /\ UNCHANGED <<db, dirty, sess>>
       ELSE /\ ret' = [call EXCEPT !.value = <<TRUE>>]
            /\ UNCHANGED <<db, dirty, sess, remote>>

\* VectorDBConnector.query
Query(c, collection_name, vector, top_k) ==
    /\ budget > 0
    /\ budget' = budget - 1
    /\ UNCHANGED <<conns, db, dirty>>
    /\ LET call == [Call("query", c, collection_name) EXCEPT !.vector = vector,
                                                               !.top_k = top_k] IN
       IF call.route = "local"
       THEN IF sess[c].lock = "none" /\ OthersHold(c, {"pending"})
            THEN /\ ret' = [call EXCEPT !.exc = "OperationalError"]
                 /\ UNCHANGED <<sess, remote>>
            ELSE /\ \E rows \in Scans(Select(View(c), collection_name)) :
                      LET q == QueryRows(rows, vector, top_k) IN
                      ret' = [call EXCEPT !.scan = [i \in 1..Len(rows) |-> rows[i].id],
                                          !.exc = q.exc, !.value = q.value]
                 /\ sess' = [sess EXCEPT ![c].lock =
                                IF sess[c].in_transaction /\ @ = "none" THEN "shared" ELSE @]
                 /\ UNCHANGED remote
       ELSE IF call.route = "pinecone"
       THEN /\ ret' = [call EXCEPT !.value = RemoteMatches]
            /\ remote' = remote \cup {[op |-> "query", index |-> collection_name]}
            /\ UNCHANGED sess
       ELSE /\ ret' = [call EXCEPT !.value = <<Placeholder>>]
            /\ UNCHANGED <<sess, remote>>

Next ==
    \/ \E c \in DOMAIN conns, n \in Collections, vs \in Batches : Upsert(c, n, vs)
    \/ \E c \in DOMAIN conns, n \in Collections, v \in QueryVectors, k \in TopKs :
          Query(c, n, v, k)

Spec == Init /\ [][Next]_vars

SpecShared == InitShared /\ [][Next]_vars

---------------------------------------------------------------------------
(* Vocabulary of the properties *)

LocalCall(op) == ret.op = op /\ conns[ret.conn].provider = "local"

\* the records of a collection as a connection reads them
Stored(table, n) == {r \in table : r.collection = n}

IdsOf(rows) == {r.id : r \in rows}

ResultIds == {ret.value[i].id : i \in DOMAIN ret.value}

Magnitude2(v) == Dot(v, v)

SameLength(r, v) == Len(FromBuffer(r.vector)) = Len(v)

\* a record that has a defined score against the query vector v
NonDegenerate(r, v) ==
    /\ SameLength(r, v)
    /\ Magnitude2(FromBuffer(r.vector)) # 0
    /\ Magnitude2(v) # 0

\* record i is the last one with its id among the first n records
Latest(vectors, n, i) == \A j \in (i + 1)..n : vectors[j].id # vectors[i].id

\* a connector built for a remote provider without its library, or without
\* its key or URL
BuiltWithoutCredentials(k) ==
    \/ k.provider = "pinecone" /\ (~k.lib \/ ~(("api_key" \in k.config) \/ k.env_key))
    \/ k.provider = "weaviate" /\ (~k.lib \/ ~("url" \in k.config))

\* a record that upsert can encode and key
Writable(vec) == vec.values.kind = "list" /\ "id" \in vec.keys

\* a returned bool read as a number, as Python compares it: True == 1
AsNumber(b) == IF b THEN 1 ELSE 0

\* where the scan returned the record of an id
ScanPos(id) == CHOOSE p \in DOMAIN ret.scan : ret.scan[p] = id

---------------------------------------------------------------------------
(* C1: last-write-wins.  Every local upsert leaves at most one record per  *)
(* id in the collection: the ids of the collection become the old ids      *)
(* plus the ids written, each written id holds the values and metadata of  *)
(* the last record written for it, the other records and the other         *)
(* collections stay as they were, so the collection grows by the new ids   *)
(* only; and a query returns each id once, with the score and metadata of  *)
(* the one record stored for it.                                           *)

C1_UpsertStep ==
    (ret'.op = "upsert" /\ conns[ret'.conn].provider = "local" /\ budget' # budget) =>
        LET c      == ret'.conn
            n      == ret'.collection
            vs     == ret'.vectors
            done   == ret'.done
            before == View(c)
            after  == Visible(sess', dirty', db', c)
            newIds == {vs[i].id : i \in 1..done}
        IN  /\ IdsOf(Stored(after, n)) = IdsOf(Stored(before, n)) \cup newIds
            /\ Cardinality(Stored(after, n)) = Cardinality(IdsOf(Stored(after, n)))
            /\ \A i \in 1..done : Latest(vs, done, i) => Row(n, vs[i]) \in after
            /\ \A r \in Stored(before, n) : ~(r.id \in newIds) => r \in after
            /\ after \ Stored(after, n) = before \ Stored(before, n)

C1_QueryReadsTheRecord ==
    (LocalCall("query") /\ ret.exc = "none") =>
        /\ \A i, j \in DOMAIN ret.value : i # j => ret.value[i].id # ret.value[j].id
        /\ \A i \in DOMAIN ret.value :
              \E r \in Stored(View(ret.conn), ret.collection) :
                  /\ r.id = ret.value[i].id
                  /\ ret.value[i].metadata = JsonLoads(r.metadata)
                  /\ ret.value[i].score = Cosine(ret.vector, FromBuffer(r.vector))

\* C1: every local upsert step is last-write-wins with one record per id,
\* and every local query reads the one record stored for each id it returns
C1_LastWriteWins == [][C1_UpsertStep]_vars /\ []C1_QueryReadsTheRecord

\* an upsert wrote one id twice, with different values and metadata, and
\* the collection holds the second record alone
C1_Witness ==
    /\ LocalCall("upsert") /\ ret.exc = "none" /\ Len(ret.vectors) = 2
    /\ ret.vectors[1].id = ret.vectors[2].id
    /\ ret.vectors[1].values # ret.vectors[2].values
    /\ ret.vectors[1].metadata # ret.vectors[2].metadata
    /\ Stored(db, ret.collection) = {Row(ret.collection, ret.vectors[2])}

---------------------------------------------------------------------------
(* C2: after successful upserts, a local query with top_k at least the     *)
(* size of the collection returns exactly the non-degenerate records of    *)
(* that collection, each id once.                                          *)

C2_ReturnsTheNonDegenerateRecords ==
    LET rows  == Stored(View(ret.conn), ret.collection)
        valid == {r \in rows : NonDegenerate(r, ret.vector)}
    IN  (LocalCall("query") /\ ~sess[ret.conn].in_transaction
            /\ ret.top_k >= Cardinality(rows)) =>
            /\ ret.exc = "none"
            /\ ResultIds = IdsOf(valid)
            /\ Len(ret.value) = Cardinality(valid)

---------------------------------------------------------------------------
(* C3: a local query on a collection that holds a record of another        *)
(* length than the query vector raises nothing, leaves that record out     *)
(* and, with top_k at least the collection's size, returns the records     *)
(* that do have a score.                                                   *)

C3_MismatchIsSkipped ==
    LET rows == Stored(View(ret.conn), ret.collection)
    IN  (LocalCall("query") /\ \E r \in rows : ~SameLength(r, ret.vector)) =>
            /\ ret.exc = "none"
            /\ \A r \in rows : ~SameLength(r, ret.vector) => ~(r.id \in ResultIds)
            /\ ret.top_k >= Cardinality(rows) =>
                  \A r \in rows : NonDegenerate(r, ret.vector) => r.id \in ResultIds

---------------------------------------------------------------------------
(* C4: in a local query over records of the query's length, no result      *)
(* has an undefined score, no record of zero magnitude is returned, a      *)
(* query vector of zero magnitude gets the empty sequence, and nothing     *)
(* is raised.                                                              *)

C4_ZeroMagnitudeIsSkipped ==
    LET rows == Stored(View(ret.conn), ret.collection)
    IN  (LocalCall("query") /\ \A r \in rows : SameLength(r, ret.vector)) =>
            /\ ret.exc = "none"
            /\ \A i \in DOMAIN ret.value : ~ret.value[i].score.nan
            /\ \A r \in rows :
                  Magnitude2(FromBuffer(r.vector)) = 0 => ~(r.id \in ResultIds)
            /\ Magnitude2(ret.vector) = 0 => ret.value = <<>>

---------------------------------------------------------------------------
(* C5: the sequence a local query returns never has a lower score before   *)
(* a higher one, and results of equal score keep the order of the scan.    *)

C5_RankedDescendingStable ==
    (LocalCall("query") /\ ret.exc = "none") =>
        \A i, j \in DOMAIN ret.value :
            i < j =>
                /\ ~ScoreLT(ret.value[i].score, ret.value[j].score)
                /\ ScoreEQ(ret.value[i].score, ret.value[j].score) =>
                      ScanPos(ret.value[i].id) < ScanPos(ret.value[j].id)

---------------------------------------------------------------------------
(* C6: over a collection whose records all have a score, a local query     *)
(* returns min(top_k, number of records) entries when top_k > 0 and the    *)
(* empty sequence when top_k <= 0.                                         *)

C6_TopKTruncates ==
    LET rows == Stored(View(ret.conn), ret.collection)
        n    == Cardinality(rows)
    IN  (LocalCall("query") /\ \A r \in rows : NonDegenerate(r, ret.vector)) =>
            /\ ret.exc = "none"
            /\ ret.top_k <= 0 => ret.value = <<>>
            /\ ret.top_k > 0 => Len(ret.value) = (IF ret.top_k < n THEN ret.top_k ELSE n)

---------------------------------------------------------------------------
(* C7: when record k of a local batch fails to be written, every           *)
(* connector opened on the store file reads the records 1..k-1 of the      *)
(* batch, and the file holds them.                                         *)

C7_EarlierRecordsCommitted ==
    (LocalCall("upsert") /\ ret.exc \in {"KeyError", "ValueError"}) =>
        \A i \in 1..ret.done :
            Latest(ret.vectors, ret.done, i) =>
                /\ Row(ret.collection, ret.vectors[i]) \in db
                /\ \A k \in DOMAIN conns : Row(ret.collection, ret.vectors[i]) \in View(k)

---------------------------------------------------------------------------
(* C8: every call goes to the backend that construction selected: a        *)
(* connector that opened the local store writes to it and reads from it, a *)
(* connector with a live remote client forwards the call to it, and only   *)
(* a connector that fell back to simulation answers with the placeholder.  *)

C8_DispatchFixedAtConstruction ==
    LET k == conns[ret.conn] IN
    (ret.op # "none") =>
        /\ (k.client = "conn" /\ ret.op = "upsert" /\ ret.exc = "none") =>
              \A i \in 1..Len(ret.vectors) :
                  Latest(ret.vectors, Len(ret.vectors), i) =>
                      Row(ret.collection, ret.vectors[i]) \in db
        /\ (k.client \in {"Pinecone", "weaviate.Client"} /\ ret.exc = "none") =>
              [op |-> ret.op, index |-> ret.collection] \in remote
        /\ (ret.op = "query" /\ ret.exc = "none" /\ ret.value = <<Placeholder>>) =>
              k.client \in Simulated

---------------------------------------------------------------------------
(* C9: a connector built for "pinecone" or "weaviate" without its          *)
(* library, or without its key or URL, is in simulation: every upsert      *)
(* returns True, every query returns the one placeholder, nothing is       *)
(* raised, no remote client is called and the local store is untouched.    *)

C9_SimulationFallback ==
    \A c \in DOMAIN conns :
        BuiltWithoutCredentials(conns[c]) =>
            /\ conns[c].client \in Simulated
            /\ remote = {}
            /\ db = {} /\ dirty = {}
            /\ ret.conn = c =>
                  /\ ret.exc = "none"
                  /\ ret.op = "upsert" => ret.value = <<TRUE>>
                  /\ ret.op = "query" => ret.value = <<Placeholder>>

\* three calls on a connector built with its library but without its key
\* or URL, the last a query answered by the placeholder
C9_Witness ==
    /\ BuiltWithoutCredentials(conns["k1"])
    /\ conns["k1"].lib
    /\ budget = 0
    /\ ret.op = "query"
    /\ ret.value = <<Placeholder>>

---------------------------------------------------------------------------
(* C10: a local query on a collection that holds no record returns the     *)
(* empty sequence and raises nothing, whatever the other collections hold. *)

C10_EmptyCollection ==
    (LocalCall("query") /\ Stored(View(ret.conn), ret.collection) = {}) =>
        /\ ret.exc = "none"
        /\ ret.value = <<>>

\* the queried collection is empty while another collection holds a record
\* of another length than the query vector and one of zero magnitude
C10_Witness ==
    /\ LocalCall("query")
    /\ Stored(View(ret.conn), ret.collection) = {}
    /\ ret.top_k > 0
    /\ \E r \in db : ~SameLength(r, ret.vector)
    /\ \E r \in db : SameLength(r, ret.vector) /\ Magnitude2(FromBuffer(r.vector)) # 0
    /\ ret.exc = "none" /\ ret.value = <<>>

---------------------------------------------------------------------------
(* C11, as claimed: a local upsert that writes every record of its batch   *)
(* returns the number of records written, n for a batch of n and 0 for an  *)
(* empty batch.                                                            *)

C11_ReturnsCount ==
    (LocalCall("upsert") /\ ret.exc = "none") =>
        /\ Len(ret.value) = 1
        /\ AsNumber(ret.value[1]) = Len(ret.vectors)

(* C11, amended: a local upsert returns True, and no count, exactly when   *)
(* every record of its batch is written: it returns True for every batch   *)
(* of n writable records, the empty batch included, with the n records     *)
(* committed to the store, and returns nothing (it raises) otherwise.      *)

C11_ReturnsTrue ==
    LocalCall("upsert") =>
        /\ (ret.exc = "none") <=> (\A i \in DOMAIN ret.vectors : Writable(ret.vectors[i]))
        /\ ret.exc = "none" =>
              /\ ret.value = <<TRUE>>
              /\ ret.done = Len(ret.vectors)
              /\ \A i \in DOMAIN ret.vectors :
                    Latest(ret.vectors, Len(ret.vectors), i) =>
                        Row(ret.collection, ret.vectors[i]) \in db
        /\ ret.exc # "none" => ret.value = <<>>

\* an upsert wrote a batch of two records with two ids and returned True
C11_Witness ==
    /\ LocalCall("upsert") /\ ret.exc = "none"
    /\ Len(ret.vectors) = 2
    /\ ret.vectors[1].id # ret.vectors[2].id
    /\ ret.value = <<TRUE>>
    /\ Cardinality(Stored(db, ret.collection)) >= 2

====
